---- MODULE Spec2Model ----
(***************************************************************************)
(* The media-intelligence dashboard of src/streamlitappmi.py: one upload   *)
(* runs read_csv -> clean_data -> five (chart, insight) blocks in page     *)
(* order.  Strings whose characters the code inspects (column headers,     *)
(* sentiment labels) are sequences of one-character strings; a timestamp   *)
(* is a pair <<day, hour>>; a raw engagement number is kept in tenths so   *)
(* that astype(int) has a fractional part to cut.                          *)
(***************************************************************************)
EXTENDS Integers, Sequences, FiniteSets, TLC

VARIABLES
    pc,          \* position of the script run
    raw_df,      \* pd.read_csv(uploaded_file): [columns, rows]
    cleaned_df,  \* what clean_data returned (None or a DataFrame)
    page,        \* the elements rendered so far, in page order
    calls,       \* the prompts built for call_gemini_api, in call order
    response     \* what requests.post got for the most recent call

vars == <<pc, raw_df, cleaned_df, page, calls, response>>

(***************************************************************************)
(* Bounds of the model.                                                    *)
(***************************************************************************)
MaxRows == 2
MaxCleanRows == 2
MaxLocRows == 6

(***************************************************************************)
(* Python str methods used on column headers and sentiment labels.         *)
(***************************************************************************)
ascii_uppercase ==
    <<"A","B","C","D","E","F","G","H","I","J","K","L","M",
      "N","O","P","Q","R","S","T","U","V","W","X","Y","Z">>

ascii_lowercase ==
    <<"a","b","c","d","e","f","g","h","i","j","k","l","m",
      "n","o","p","q","r","s","t","u","v","w","x","y","z">>

whitespace == {" ", "\t", "\n", "\r"}

Range(s) == {s[i] : i \in DOMAIN s}

\* str.lower() and str.upper() on one character
LowerTable ==
    [c \in Range(ascii_uppercase) |->
        ascii_lowercase[CHOOSE i \in DOMAIN ascii_uppercase : ascii_uppercase[i] = c]]

UpperTable ==
    [c \in Range(ascii_lowercase) |->
        ascii_uppercase[CHOOSE i \in DOMAIN ascii_lowercase : ascii_lowercase[i] = c]]

LowerChar(c) == IF c \in DOMAIN LowerTable THEN LowerTable[c] ELSE c

UpperChar(c) == IF c \in DOMAIN UpperTable THEN UpperTable[c] ELSE c

lower(s) == [i \in DOMAIN s |-> LowerChar(s[i])]

upper(s) == [i \in DOMAIN s |-> UpperChar(s[i])]

replace(s, old, new) == [i \in DOMAIN s |-> IF s[i] = old THEN new ELSE s[i]]

RECURSIVE lstrip(_)
lstrip(s) ==
    IF Len(s) > 0 /\ s[1] \in whitespace THEN lstrip(Tail(s)) ELSE s

RECURSIVE rstrip(_)
rstrip(s) ==
    IF Len(s) > 0 /\ s[Len(s)] \in whitespace
    THEN rstrip(SubSeq(s, 1, Len(s) - 1))
    ELSE s

strip(s) == rstrip(lstrip(s))

(***************************************************************************)
(* clean_data, line 131: col.lower().replace(' ', '_').strip()             *)
(***************************************************************************)
NormalizeColumn(col) == strip(replace(lower(col), " ", "_"))

NormalizeColumns(columns) ==
    [i \in DOMAIN columns |-> NormalizeColumn(columns[i])]

col_date == <<"d","a","t","e">>
col_platform == <<"p","l","a","t","f","o","r","m">>
col_sentiment == <<"s","e","n","t","i","m","e","n","t">>
col_location == <<"l","o","c","a","t","i","o","n">>
col_engagements == <<"e","n","g","a","g","e","m","e","n","t","s">>
col_media_type == <<"m","e","d","i","a","_","t","y","p","e">>

\* the six columns the uploader's help text names (line 294), normalized
ExpectedColumns ==
    <<col_date, col_platform, col_sentiment, col_location, col_engagements,
      col_media_type>>

required_columns_short ==
    <<col_date, col_platform, col_sentiment, col_location, col_engagements>>

\* line 134
required_columns ==
    <<col_date, col_platform, col_sentiment, col_location, col_engagements,
      col_media_type>>

HasRequiredColumns(columns) ==
    \A i \in DOMAIN required_columns : required_columns[i] \in Range(columns)

(***************************************************************************)
(* Cells of the raw table and pandas' coercions (lines 140-147).           *)
(*   date cell         ts (a parseable date, v = <<day, hour>>),           *)
(*                     text (unparseable), nan (empty cell)                *)
(*   engagements cell  num (v = the number in tenths), inf, text, nan      *)
(*   sentiment cell    str (v = the characters), nan                       *)
(***************************************************************************)
Cell(k, v) == [k |-> k, v |-> v]

NaT == Cell("NaT", <<0, 0>>)

NaN == Cell("NaN", 0)

\* pd.to_datetime(..., errors='coerce')
to_datetime(cell) == IF cell.k = "ts" THEN cell ELSE NaT

\* pd.to_numeric(..., errors='coerce')
to_numeric(cell) == IF cell.k \in {"num", "inf"} THEN cell ELSE NaN

\* .fillna(0)
fillna(cell) == IF cell.k = "NaN" THEN Cell("num", 0) ELSE cell

\* int(x) of a finite float: the fractional part is cut, toward zero
TruncTenths(t) == IF t >= 0 THEN t \div 10 ELSE -((-t) \div 10)

\* .astype(int) raises on a non-finite value
CanCastInt(cell) == cell.k = "num"

astype_int_floor(cell) == cell.v \div 10

astype_int(cell) == TruncTenths(cell.v)

\* .astype(str).str.lower()
astype_str(cell) == IF cell.k = "str" THEN cell.v ELSE <<"n","a","n">>

(***************************************************************************)
(* DataFrames.  A cleaned row keeps, in src, the position its raw row had  *)
(* in the uploaded file (the index label before reset_index).              *)
(***************************************************************************)
DataFrame(columns, rows) == [none |-> FALSE, columns |-> columns, rows |-> rows]

None == [none |-> TRUE, columns |-> <<>>, rows |-> <<>>]

TsLess(a, b) == a[1] < b[1] \/ (a[1] = b[1] /\ a[2] < b[2])

\* lines 140-141: to_datetime, then dropna(subset=['date'])
dropna_any(rows) ==
    SelectSeq(rows, LAMBDA r : r.date.k = "ts" /\ r.engagements.k # "nan"
                                 /\ r.sentiment.k # "nan")

dropna(rows) == SelectSeq(rows, LAMBDA r : r.date.k = "ts")

WithSrc(rows) ==
    [i \in DOMAIN rows |->
        [src |-> i,
         date |-> to_datetime(rows[i].date),
         platform |-> rows[i].platform,
         sentiment |-> rows[i].sentiment,
         location |-> rows[i].location,
         engagements |-> rows[i].engagements,
         media_type |-> rows[i].media_type]]

\* lines 144 and 147 on one row that survived dropna
CoerceRow(r) ==
    [src |-> r.src,
     date |-> r.date.v,
     platform |-> r.platform,
     sentiment |-> lower(astype_str(r.sentiment)),
     location |-> r.location,
     engagements |-> astype_int(fillna(to_numeric(r.engagements))),
     media_type |-> r.media_type]

Orderings(n) ==
    {p \in [1..n -> 1..n] : \A i, j \in 1..n : i # j => p[i] # p[j]}

Ascending(rows) ==
    \A i, j \in DOMAIN rows : i < j => ~TsLess(rows[j].date, rows[i].date)

Descending(rows) ==
    \A i, j \in DOMAIN rows : i < j => ~TsLess(rows[i].date, rows[j].date)

sort_values_desc(rows) ==
    {s \in {[i \in DOMAIN rows |-> rows[p[i]]] : p \in Orderings(Len(rows))} :
        Descending(s)}

\* line 150: df.sort_values('date') with the default kind='quicksort', which
\* is not a stable sort: rows with equal timestamps may come out in any order.
sort_values(rows) ==
    {s \in {[i \in DOMAIN rows |-> rows[p[i]]] : p \in Orderings(Len(rows))} :
        Ascending(s)}

(***************************************************************************)
(* clean_data (lines 123-152): the set of outcomes of one call.            *)
(*   kind "None"   a required column is missing (st.error, return None)    *)
(*   kind "raise"  astype(int) met a non-finite number                     *)
(*   kind "df"     the cleaned, date-sorted table                          *)
(***************************************************************************)
Outcome(kind, df) == [kind |-> kind, df |-> df]

clean_data(df) ==
    LET columns == NormalizeColumns(df.columns)
        kept == dropna(WithSrc(df.rows))
    IN  IF ~HasRequiredColumns(columns)
        THEN {Outcome("None", None)}
        ELSE IF \E i \in DOMAIN kept :
                    ~CanCastInt(fillna(to_numeric(kept[i].engagements)))
        THEN {Outcome("raise", None)}
        ELSE {Outcome("df", DataFrame(columns, s)) :
                 s \in sort_values([i \in DOMAIN kept |-> CoerceRow(kept[i])])}

(***************************************************************************)
(* Aggregates (lines 158, 187, 212, 236, 263 and 324, 337, 357, 369, 381). *)
(* An aggregate is a sequence of <<key, measure>> pairs in pandas' order.  *)
(* groupby sorts its keys; labels are ordered by their place in Labels,    *)
(* which lists every platform and location name in Python's string order.  *)
(***************************************************************************)
Labels ==
    <<"Accra", "Bali", "Cairo", "Delhi", "Lagos", "Lima", "Oslo", "Rome",
      "TikTok", "X", "image", "text", "video">>

TopN == 5

Column(rows, f) == [i \in DOMAIN rows |-> rows[i][f]]

RECURSIVE Sum(_)
Sum(s) == IF s = <<>> THEN 0 ELSE Head(s) + Sum(Tail(s))

RECURSIVE Unique(_)
Unique(s) ==
    IF s = <<>> THEN <<>>
    ELSE LET init == Unique(SubSeq(s, 1, Len(s) - 1))
             x == s[Len(s)]
         IN  IF x \in Range(init) THEN init ELSE Append(init, x)

\* sort_values(ascending=False) of <<key, measure>> pairs
RECURSIVE SortDescending(_)
SortDescending(s) ==
    IF s = <<>> THEN <<>>
    ELSE LET init == SortDescending(SubSeq(s, 1, Len(s) - 1))
             x == s[Len(s)]
             before == SelectSeq(init, LAMBDA y : y[2] >= x[2])
             after == SelectSeq(init, LAMBDA y : y[2] < x[2])
         IN  before \o <<x>> \o after

head_more(s, n) == SubSeq(s, 1, IF Len(s) < n + 1 THEN Len(s) ELSE n + 1)

head(s, n) == SubSeq(s, 1, IF Len(s) < n THEN Len(s) ELSE n)

\* df[f].value_counts(): one entry per distinct value, most frequent first
value_counts(rows, f) ==
    LET col == Column(rows, f)
        keys == Unique(col)
    IN  SortDescending(
            [i \in DOMAIN keys |->
                <<keys[i], Cardinality({j \in DOMAIN col : col[j] = keys[i]})>>])

\* df.groupby(f)['engagements'].sum(): one entry per label present, keys sorted
groupby_sum(rows, f) ==
    LET keys == SelectSeq(Labels, LAMBDA l : \E i \in DOMAIN rows : rows[i][f] = l)
    IN  [i \in DOMAIN keys |->
            <<keys[i],
              Sum(Column(SelectSeq(rows, LAMBDA r : r[f] = keys[i]), "engagements"))>>]

\* df['date'].dt.date
dt_date(ts) == ts[1]

RECURSIVE SortedDays(_)
SortedDays(days) ==
    IF days = {} THEN <<>>
    ELSE LET d == CHOOSE x \in days : \A y \in days : x <= y
         IN  <<d>> \o SortedDays(days \ {d})

\* df.groupby(df['date'].dt.date)['engagements'].sum()
groupby_date_sum(rows) ==
    LET keys == SortedDays({dt_date(rows[i].date) : i \in DOMAIN rows})
    IN  [i \in DOMAIN keys |->
            <<keys[i],
              Sum(Column(SelectSeq(rows, LAMBDA r : dt_date(r.date) = keys[i]),
                         "engagements"))>>]

sentiment_counts(df) == value_counts(df.rows, "sentiment")

\* reset_index() of the summed Series: the frame's column labels are the
\* index name and the Series name
engagement_by_date(df) ==
    [columns |-> <<"date", "engagements">>, rows |-> groupby_date_sum(df.rows)]

\* create_engagement_trend_chart renames the two columns (line 188)
engagement_trend_chart_data(df) ==
    [columns |-> <<"Date", "Total Engagements">>, rows |-> groupby_date_sum(df.rows)]

\* the chart path (line 212): every platform
platform_engagements_chart(df) == SortDescending(groupby_sum(df.rows, "platform"))

\* the prompt path (line 357): .head(5)
platform_engagements(df) ==
    head(SortDescending(groupby_sum(df.rows, "platform")), TopN)

media_type_counts(df) == value_counts(df.rows, "media_type")

\* create_top_locations_chart (line 263)
location_engagements(df) ==
    head(SortDescending(groupby_sum(df.rows, "location")), TopN)

\* the prompt path (line 381)
top_locations(df) ==
    head(SortDescending(groupby_sum(df.rows, "location")), TopN)

(***************************************************************************)
(* JSON values as Python sees them after response.json(): <<type, value>>  *)
(* with type in null, str, num, list (value a sequence of JSON values) and *)
(* dict (value a sequence of <<key, value>> members).                      *)
(***************************************************************************)
JNull == <<"null", 0>>

JStr(s) == <<"str", s>>

JNum(n) == <<"num", n>>

JList(items) == <<"list", items>>

JDict(members) == <<"dict", members>>

TypeOf(x) == x[1]

ValueOf(x) == x[2]

\* bool(x)
Truthy(x) ==
    CASE TypeOf(x) = "null" -> FALSE
      [] TypeOf(x) = "str" -> ValueOf(x) # ""
      [] TypeOf(x) = "num" -> ValueOf(x) # 0
      [] OTHER -> Len(ValueOf(x)) > 0

HasKey(d, key) == \E i \in DOMAIN ValueOf(d) : ValueOf(d)[i][1] = key

Member(d, key) ==
    ValueOf(d)[CHOOSE i \in DOMAIN ValueOf(d) : ValueOf(d)[i][1] = key][2]

\* d.get(key) on a dict
get(d, key) == IF HasKey(d, key) THEN Member(d, key) ELSE JNull

\* the exception x[0] raises ("" when it raises none); JSON keys are strings,
\* so a dict never has the key 0
Subscript0Error(x) ==
    CASE TypeOf(x) = "list" -> IF Len(ValueOf(x)) > 0 THEN "" ELSE "IndexError"
      [] TypeOf(x) = "str" -> IF ValueOf(x) # "" THEN "" ELSE "IndexError"
      [] TypeOf(x) = "dict" -> "KeyError"
      [] OTHER -> "TypeError"

\* x[0]: an item of a list, a one-character str of a str
Subscript0(x) == IF TypeOf(x) = "list" THEN ValueOf(x)[1] ELSE JStr("c")

\* the exception x['text'] raises ("" when it raises none)
SubscriptTextError(x) ==
    CASE TypeOf(x) = "dict" -> IF HasKey(x, "text") THEN "" ELSE "KeyError"
      [] OTHER -> "TypeError"

\* the exception x.get raises ("" when it raises none)
GetError(x) == IF TypeOf(x) = "dict" THEN "" ELSE "AttributeError"

(***************************************************************************)
(* call_gemini_api (lines 99-120).  A reply is what requests hands back:   *)
(*   ConnectionError  requests.post raised                                 *)
(*   HTTPError        raise_for_status raised                              *)
(*   JSONDecodeError  the body is not JSON; requests >= 2.27 raises its    *)
(*                    own JSONDecodeError, a RequestException              *)
(*   ValueError       the body is not JSON; older requests raise a plain   *)
(*                    ValueError                                           *)
(*   ok               response.json() returned body                        *)
(* The result: exc (the exception that leaves the function, "" for none),  *)
(* err (the st.error it showed, "" for none), ret (the value returned).    *)
(***************************************************************************)
Reply(status, body) == [status |-> status, body |-> body]

NoReply == Reply("none", JNull)

RequestExceptions == {"ConnectionError", "HTTPError", "JSONDecodeError"}

UnexpectedStructure == "Unexpected API response structure"

FailedToGenerate == "Failed to generate insights"

PlaceholderStructure ==
    JStr("Could not generate insights due to an unexpected API response.")

PlaceholderNetwork ==
    JStr("Failed to generate insights due to a network or API error.")

Result(exc, err, ret) == [exc |-> exc, err |-> err, ret |-> ret]

Raises(exc) == Result(exc, "", JNull)

Unexpected == Result("", UnexpectedStructure, PlaceholderStructure)

\* line 114: return result['candidates'][0]['content']['parts'][0]['text']
ReturnText(parts) ==
    IF Subscript0Error(parts) # "" THEN Raises(Subscript0Error(parts))
    ELSE IF SubscriptTextError(Subscript0(parts)) # ""
    THEN Raises(SubscriptTextError(Subscript0(parts)))
    ELSE Result("", "", Member(Subscript0(parts), "text"))

\* the third conjunct of line 113, and the branch it chooses
CheckParts(content) ==
    IF GetError(content) # "" THEN Raises(GetError(content))
    ELSE IF ~Truthy(get(content, "parts")) THEN Unexpected
    ELSE ReturnText(get(content, "parts"))

\* the second conjunct of line 113
CheckContent(candidates) ==
    IF Subscript0Error(candidates) # "" THEN Raises(Subscript0Error(candidates))
    ELSE IF GetError(Subscript0(candidates)) # ""
    THEN Raises(GetError(Subscript0(candidates)))
    ELSE IF ~Truthy(get(Subscript0(candidates), "content")) THEN Unexpected
    ELSE CheckParts(get(Subscript0(candidates), "content"))

\* lines 113-117 on the parsed body
ParseResult(result) ==
    IF GetError(result) # "" THEN Raises(GetError(result))
    ELSE IF ~Truthy(get(result, "candidates")) THEN Unexpected
    ELSE CheckContent(get(result, "candidates"))

call_gemini_api(reply) ==
    IF reply.status \in RequestExceptions
    THEN Result("", FailedToGenerate, PlaceholderNetwork)
    ELSE IF reply.status = "ok" THEN ParseResult(reply.body)
    ELSE Raises(reply.status)

(***************************************************************************)
(* Prompts (lines 325, 338-345, 358, 370, 382): the f-string's template    *)
(* and the data it embeds.  exc is the exception building it raises.       *)
(***************************************************************************)
Prompt(template, data) == [exc |-> "", template |-> template, data |-> data]

PromptRaises(exc) == [exc |-> exc, template |-> "", data |-> <<>>]

sentiment_prompt(df) == Prompt("sentiment", sentiment_counts(df))

\* the exception frame.iloc[i][label] raises ("" when it raises none)
LabelError(frame, label) ==
    IF label \in Range(frame.columns) THEN "" ELSE "KeyError"

TrendData(frame) ==
    <<frame.rows[1][1], frame.rows[Len(frame.rows)][1],
      frame.rows[1][2], frame.rows[Len(frame.rows)][2]>>

trend_prompt_no_fallback(df) ==
    IF LabelError(engagement_by_date(df), "date") # ""
        \/ LabelError(engagement_by_date(df), "Total Engagements") # ""
    THEN PromptRaises("KeyError")
    ELSE Prompt("trend", engagement_by_date(df).rows)

\* lines 337-345
trend_prompt(df) ==
    LET frame == engagement_by_date(df)
    IN  IF frame.rows # <<>>
        THEN IF LabelError(frame, "date") # ""
             THEN PromptRaises(LabelError(frame, "date"))
             ELSE IF LabelError(frame, "Total Engagements") # ""
             THEN PromptRaises(LabelError(frame, "Total Engagements"))
             ELSE Prompt("trend", TrendData(frame))
        ELSE Prompt("trend_fallback", <<>>)

platform_prompt(df) == Prompt("platform", platform_engagements(df))

media_type_prompt(df) == Prompt("media_type", media_type_counts(df))

location_prompt(df) == Prompt("location", top_locations(df))

(***************************************************************************)
(* What the five create_*_chart functions plot.                            *)
(***************************************************************************)
create_sentiment_chart(df) == sentiment_counts(df)

create_engagement_trend_chart(df) == engagement_trend_chart_data(df)

create_platform_engagements_chart(df) == platform_engagements_chart(df)

create_media_type_mix_chart(df) == media_type_counts(df)

create_top_locations_chart(df) == location_engagements(df)

(***************************************************************************)
(* Inputs: uploaded files and replies of the remote service.               *)
(***************************************************************************)
Titled(s) ==
    [i \in DOMAIN s |->
        IF s[i] = "_" THEN " "
        ELSE IF i = 1 \/ s[i - 1] = "_" THEN UpperChar(s[i]) ELSE s[i]]

\* the spellings of a header: media_type, MEDIA_TYPE, Media Type,
\* " media_type " and "media_type\t"
Variants == {"canon", "upper", "title", "padded", "tabbed"}

Spelling(name, variant) ==
    CASE variant = "canon" -> name
      [] variant = "upper" -> upper(name)
      [] variant = "title" -> Titled(name)
      [] variant = "padded" -> <<" ">> \o name \o <<" ">>
      [] variant = "tabbed" -> name \o <<"\t">>

Header(spelling) ==
    [i \in DOMAIN ExpectedColumns |-> Spelling(ExpectedColumns[i], spelling[i])]

WithoutColumn(i) ==
    SubSeq(ExpectedColumns, 1, i - 1)
        \o SubSeq(ExpectedColumns, i + 1, Len(ExpectedColumns))

Tables(rows, n) == UNION {[1..k -> rows] : k \in 0..n}

RawRow(date, engagements, sentiment, location) ==
    [date |-> date, platform |-> "X", sentiment |-> sentiment,
     location |-> location, engagements |-> engagements, media_type |-> "video"]

Positive == Cell("str", <<"P","o","s","i","t","i","v","e">>)

File(columns, rows) == [columns |-> columns, rows |-> rows]

NoFile == File(<<>>, <<>>)

\* the pipeline's uploads: every spelling applied to all six headers, each
\* column missing in turn, and short tables with good and bad dates
Files ==
    {File(h, t) :
        h \in {Header([i \in DOMAIN ExpectedColumns |-> v]) :
                    v \in Variants \ {"tabbed"}}
                \cup {WithoutColumn(i) : i \in DOMAIN ExpectedColumns},
        t \in Tables({RawRow(d, Cell("num", 50), Positive, "Bali") :
                        d \in {Cell("ts", <<1, 0>>), Cell("ts", <<2, 0>>),
                               Cell("text", <<0, 0>>)}},
                     MaxRows)}

\* header-only files, each header in a spelling of its own
HeaderFiles ==
    {File(Header(sp), <<>>) : sp \in [DOMAIN ExpectedColumns -> Variants]}

\* well-headed files whose cells take every raw form
CleanFiles ==
    {File(ExpectedColumns, t) :
        t \in Tables({RawRow(d, e, s, "Bali") :
                        d \in {Cell("ts", <<1, 0>>), Cell("ts", <<1, 12>>),
                               Cell("text", <<0, 0>>), Cell("nan", <<0, 0>>)},
                        e \in {Cell("num", 70), Cell("num", 25), Cell("num", -25),
                               Cell("inf", 0), Cell("text", 0), Cell("nan", 0)},
                        s \in {Positive, Cell("nan", <<>>)}},
                     MaxCleanRows)}

GoodText == JStr("insight")

Parts0Values ==
    {JDict(<< <<"text", GoodText>> >>), JDict(<< <<"text", JNull>> >>),
     JDict(<<>>), JDict(<< <<"role", JStr("model")>> >>), JStr("x"), JNull}

PartsValues ==
    {JList(<<p>>) : p \in Parts0Values}
        \cup {JList(<<>>), JNull, JStr("x"), JNum(1),
              JDict(<< <<"text", GoodText>> >>)}

ContentValues ==
    {JDict(<< <<"parts", p>> >>) : p \in PartsValues}
        \cup {JDict(<<>>), JNull, JStr("x"), JNum(1), JList(<<JStr("x")>>)}

Candidates0Values ==
    {JDict(<< <<"content", c>> >>) : c \in ContentValues}
        \cup {JDict(<<>>), JNull, JStr("x"), JNum(1)}

CandidatesValues ==
    {JList(<<c>>) : c \in Candidates0Values}
        \cup {JList(<<>>), JNull, JStr("x"), JNum(1),
              JDict(<< <<"content", JNull>> >>)}

Bodies ==
    {JDict(<< <<"candidates", c>> >>) : c \in CandidatesValues}
        \cup {JDict(<<>>), JDict(<< <<"error", JStr("quota")>> >>), JNull,
              JList(<<>>), JStr("x")}

Replies ==
    {Reply("ok", b) : b \in Bodies}
        \cup {Reply(st, JNull) :
                st \in {"ConnectionError", "HTTPError", "JSONDecodeError",
                        "ValueError"}}

(***************************************************************************)
(* The script run (lines 297-391).  A page element is a chart, an insight   *)
(* block, an st.error of clean_data or call_gemini_api (kind error), or the *)
(* st.error of the handler at line 391 (kind exception, data the exception *)
(* it caught).                                                             *)
(***************************************************************************)
Element(kind, block, data) == [kind |-> kind, block |-> block, data |-> data]

ChartPc == <<"chart1", "chart2", "chart3", "chart4", "chart5", "done">>

InsightPc == <<"insight1", "insight2", "insight3", "insight4", "insight5">>

Init ==
    /\ pc = "idle"
    /\ raw_df = NoFile
    /\ cleaned_df = None
    /\ page = <<>>
    /\ calls = <<>>
    /\ response = NoReply

\* a file arrives in the uploader: the script runs from the top (line 298)
UploadFrom(files) ==
    /\ pc = "idle"
    /\ \E f \in files : raw_df' = f
    /\ pc' = "clean"
    /\ cleaned_df' = None
    /\ page' = <<Element("success", 0, "File uploaded successfully")>>
    /\ calls' = <<>>
    /\ response' = NoReply

Upload == UploadFrom(Files)

\* the file is removed from the uploader: the script reruns with
\* uploaded_file None and renders the title and the uploader only
RemoveFile ==
    /\ pc \in {"done", "failed", "aborted"}
    /\ pc' = "idle"
    /\ raw_df' = NoFile
    /\ cleaned_df' = None
    /\ page' = <<>>
    /\ calls' = <<>>
    /\ response' = NoReply

\* lines 301-318 and 387-391: read_csv, clean_data, and the branch on its result
CleanData ==
    /\ pc = "clean"
    /\ \E o \in clean_data(raw_df) :
        /\ cleaned_df' = o.df
        /\ pc' = CASE o.kind = "df" -> ChartPc[1]
                   [] o.kind = "None" -> "failed"
                   [] OTHER -> "aborted"
        /\ page' = page \o
                CASE o.kind = "df" ->
                        <<Element("markdown", 0, "Data Cleaning & Normalization")>>
                  [] o.kind = "None" ->
                        <<Element("error", 0, "Missing one or more required columns"),
                          Element("error", 0, "Data cleaning failed")>>
                  [] OTHER -> <<Element("exception", 0, "ValueError")>>
    /\ UNCHANGED <<raw_df, calls, response>>

\* st.plotly_chart(create_..._chart(cleaned_df)) of block k
Chart(k, data) ==
    /\ pc = ChartPc[k]
    /\ page' = Append(page, Element("chart", k, data))
    /\ pc' = InsightPc[k]
    /\ response' = NoReply
    /\ UNCHANGED <<raw_df, cleaned_df, calls>>

\* the prompt, the call and the st.markdown of block k; an exception that
\* leaves call_gemini_api or the prompt's construction reaches line 390
Insight(k, prompt) ==
    /\ pc = InsightPc[k]
    /\ IF prompt.exc # ""
       THEN /\ page' = Append(page, Element("exception", 0, prompt.exc))
            /\ pc' = "aborted"
            /\ UNCHANGED <<calls, response>>
       ELSE \E reply \in Replies :
            LET r == call_gemini_api(reply)
            IN  /\ calls' = Append(calls, [block |-> k, prompt |-> prompt])
                /\ response' = reply
                /\ IF r.exc # ""
                   THEN /\ page' = Append(page, Element("exception", 0, r.exc))
                        /\ pc' = "aborted"
                   ELSE /\ page' = page
                                \o (IF r.err # "" THEN <<Element("error", k, r.err)>>
                                    ELSE <<>>)
                                \o <<Element("insight", k, r.ret)>>
                        /\ pc' = ChartPc[k + 1]
    /\ UNCHANGED <<raw_df, cleaned_df>>

SentimentChart == Chart(1, create_sentiment_chart(cleaned_df))

SentimentInsight == Insight(1, sentiment_prompt(cleaned_df))

TrendChart == Chart(2, create_engagement_trend_chart(cleaned_df))

TrendInsight == Insight(2, trend_prompt(cleaned_df))

PlatformChart == Chart(3, create_platform_engagements_chart(cleaned_df))

PlatformInsight == Insight(3, platform_prompt(cleaned_df))

MediaTypeChart == Chart(4, create_media_type_mix_chart(cleaned_df))

MediaTypeInsight == Insight(4, media_type_prompt(cleaned_df))

LocationsChart == Chart(5, create_top_locations_chart(cleaned_df))

LocationsInsight == Insight(5, location_prompt(cleaned_df))

Next ==
    \/ Upload
    \/ CleanData
    \/ SentimentChart
    \/ SentimentInsight
    \/ TrendChart
    \/ TrendInsight
    \/ PlatformChart
    \/ PlatformInsight
    \/ MediaTypeChart
    \/ MediaTypeInsight
    \/ LocationsChart
    \/ LocationsInsight
    \/ RemoveFile

Spec == Init /\ [][Next]_vars

(***************************************************************************)
(* clean_data on its own, over header spellings and over raw cells.        *)
(***************************************************************************)
UploadHeader == UploadFrom(HeaderFiles)

SpecColumns == Init /\ [][UploadHeader \/ CleanData]_vars

UploadTable == UploadFrom(CleanFiles)

SpecClean == Init /\ [][UploadTable \/ CleanData]_vars

(***************************************************************************)
(* The two top-locations aggregates on their own, over normalized tables   *)
(* with more locations than the chart keeps.                               *)
(***************************************************************************)
LocationOfRow(i) == Labels[((3 * i) % 8) + 1]

CleanRow(i, location, engagements) ==
    [src |-> i, date |-> <<1, 0>>, platform |-> "X",
     sentiment |-> <<"p","o","s","i","t","i","v","e">>, location |-> location,
     engagements |-> engagements, media_type |-> "video"]

\* row i names its own location or the one of the row before it
LocationTables ==
    {[i \in 1..MaxLocRows |-> CleanRow(i, LocationOfRow(i - c[i]), e[i])] :
        c \in {f \in [1..MaxLocRows -> {0, 1}] : f[1] = 0},
        e \in [1..MaxLocRows -> {-1, 2}]}

NormalizedTable ==
    /\ pc = "idle"
    /\ \E t \in LocationTables : cleaned_df' = DataFrame(ExpectedColumns, t)
    /\ pc' = "top_chart"
    /\ UNCHANGED <<raw_df, page, calls, response>>

\* line 380
TopLocationsChart ==
    /\ pc = "top_chart"
    /\ page' = Append(page, Element("chart", 5, create_top_locations_chart(cleaned_df)))
    /\ pc' = "top_prompt"
    /\ UNCHANGED <<raw_df, cleaned_df, calls, response>>

\* lines 381-382
TopLocationsPrompt ==
    /\ pc = "top_prompt"
    /\ calls' = Append(calls, [block |-> 5, prompt |-> location_prompt(cleaned_df)])
    /\ pc' = "top_done"
    /\ UNCHANGED <<raw_df, cleaned_df, page, response>>

SpecTopLocations ==
    Init /\ [][NormalizedTable \/ TopLocationsChart \/ TopLocationsPrompt]_vars

(***************************************************************************)
(* Properties.                                                             *)
(***************************************************************************)
RunEnded == pc \in {"done", "failed", "aborted"}

Normalized == ~cleaned_df.none

\* an exception left call_gemini_api: the run stopped with the reply in hand
CallRaised == pc = "aborted" /\ response # NoReply

\* the charts and insight blocks on the page, in page order
Blocks ==
    LET shown == SelectSeq(page, LAMBDA e : e.kind \in {"chart", "insight"})
    IN  [i \in DOMAIN shown |-> <<shown[i].kind, shown[i].block>>]

CallBlocks == [i \in DOMAIN calls |-> calls[i].block]

Shows(kind, k) == \E i \in DOMAIN page : page[i].kind = kind /\ page[i].block = k

\* C1: a run whose normalization succeeded and whose remote calls all
\* returned ends with the five charts and the five insight blocks on the page
\* in the order sentiment, trend, platform, media type, locations, each chart
\* before its own insight, and with the five calls made in that order.
C1_FiveBlocksInOrder ==
    (RunEnded /\ Normalized /\ ~CallRaised) =>
        /\ pc = "done"
        /\ Blocks = <<<<"chart", 1>>, <<"insight", 1>>, <<"chart", 2>>,
                      <<"insight", 2>>, <<"chart", 3>>, <<"insight", 3>>,
                      <<"chart", 4>>, <<"insight", 4>>, <<"chart", 5>>,
                      <<"insight", 5>>>>
        /\ CallBlocks = <<1, 2, 3, 4, 5>>

NetworkFailure(k) ==
    \E i \in DOMAIN page :
        page[i].kind = "error" /\ page[i].block = k /\ page[i].data = FailedToGenerate

\* C2: when insight call k fails with a network or HTTP error, block k shows
\* the error and the placeholder string, and the run goes on to render chart
\* k+1 and to make insight call k+1.
C2_FailureIsolated ==
    RunEnded =>
        \A k \in 1..4 :
            NetworkFailure(k) =>
                /\ \E i \in DOMAIN page :
                        /\ page[i].kind = "insight"
                        /\ page[i].block = k
                        /\ page[i].data = PlaceholderNetwork
                /\ Shows("chart", k + 1)
                /\ k + 1 \in Range(CallBlocks)

\* the body is a dict whose candidates[0].content.parts[0].text is a string
ExpectedShape(body) ==
    /\ TypeOf(body) = "dict" /\ HasKey(body, "candidates")
    /\ LET candidates == Member(body, "candidates")
       IN  /\ TypeOf(candidates) = "list" /\ Len(ValueOf(candidates)) > 0
           /\ TypeOf(ValueOf(candidates)[1]) = "dict"
           /\ HasKey(ValueOf(candidates)[1], "content")
           /\ LET content == Member(ValueOf(candidates)[1], "content")
              IN  /\ TypeOf(content) = "dict" /\ HasKey(content, "parts")
                  /\ LET parts == Member(content, "parts")
                     IN  /\ TypeOf(parts) = "list" /\ Len(ValueOf(parts)) > 0
                         /\ TypeOf(ValueOf(parts)[1]) = "dict"
                         /\ HasKey(ValueOf(parts)[1], "text")
                         /\ TypeOf(Member(ValueOf(parts)[1], "text")) = "str"

\* C3: a JSON reply that lacks the shape candidates[0].content.parts[0].text
\* makes call_gemini_api report an error and return the placeholder string;
\* no exception reaches the caller.
C3_BadShapeGivesPlaceholder ==
    (response.status = "ok" /\ ~ExpectedShape(response.body)) =>
        /\ pc # "aborted"
        /\ Len(page) >= 2
        /\ page[Len(page) - 1].kind = "error"
        /\ page[Len(page) - 1].data = UnexpectedStructure
        /\ page[Len(page)].kind = "insight"
        /\ page[Len(page)].data = PlaceholderStructure

MissingRequired ==
    \E i \in DOMAIN ExpectedColumns :
        ExpectedColumns[i] \notin Range(NormalizeColumns(raw_df.columns))

\* C4: when one of the six required columns is absent after renaming,
\* clean_data reports the error and returns None, and the run renders no
\* chart, computes no aggregate and makes no insight call.
C4_MissingColumnHalts ==
    (pc \notin {"idle", "clean"} /\ MissingRequired) =>
        /\ pc = "failed"
        /\ cleaned_df = None
        /\ \E i \in DOMAIN page :
                /\ page[i].kind = "error"
                /\ page[i].data = "Missing one or more required columns"
        /\ Blocks = <<>>
        /\ calls = <<>>

\* a file with data rows and a missing column was refused
C4_Witness == pc = "failed" /\ MissingRequired /\ Len(raw_df.rows) > 0

\* C5: a file whose headers are spelled "Media Type", " media_type " or
\* "MEDIA_TYPE" (or canonically) passes the required-column check.
C5_SpellingsPass ==
    (/\ pc \notin {"idle", "clean"}
     /\ \A i \in DOMAIN ExpectedColumns :
            raw_df.columns[i] \in
                {Spelling(ExpectedColumns[i], v) :
                    v \in {"canon", "title", "padded", "upper"}}) =>
        /\ Normalized
        /\ cleaned_df.columns = ExpectedColumns

RawEngagements(r) == raw_df.rows[r.src].engagements

\* C6 as stated: every cleaned row's engagements is a non-negative integer,
\* and 0 when the raw value was non-numeric or missing.
C6_NonNegativeInteger ==
    Normalized =>
        \A i \in DOMAIN cleaned_df.rows :
            LET r == cleaned_df.rows[i]
            IN  /\ r.engagements \in Int
                /\ r.engagements >= 0
                /\ RawEngagements(r).k \in {"text", "nan"} => r.engagements = 0

\* C6 as amended: every cleaned row's engagements is an integer, the raw
\* number with its fractional part cut (a negative raw value stays negative),
\* and 0 when the raw value was non-numeric or missing.
C6_IntegerFractionCut ==
    Normalized =>
        \A i \in DOMAIN cleaned_df.rows :
            LET r == cleaned_df.rows[i]
                raw == RawEngagements(r)
            IN  /\ r.engagements \in Int
                /\ raw.k \in {"text", "nan"} => r.engagements = 0
                /\ (raw.k = "num" /\ raw.v >= 0) =>
                        (10 * r.engagements <= raw.v /\ raw.v < 10 * r.engagements + 10)
                /\ (raw.k = "num" /\ raw.v < 0) =>
                        (10 * r.engagements >= raw.v /\ raw.v > 10 * r.engagements - 10)

\* a cleaned table with a row whose raw engagements was text and a row whose
\* raw engagements was a negative number
C6_Witness ==
    /\ pc = "chart1"
    /\ \E i \in DOMAIN cleaned_df.rows :
            RawEngagements(cleaned_df.rows[i]).k = "text"
    /\ \E i \in DOMAIN cleaned_df.rows :
            /\ RawEngagements(cleaned_df.rows[i]).k = "num"
            /\ cleaned_df.rows[i].engagements < 0

EmptyChart(e) ==
    IF e.block = 2 THEN e.data.rows = <<>> ELSE e.data = <<>>

\* no exception came out of a chart, an aggregate or a prompt
NothingRaisedOutsideCalls == pc = "aborted" => response # NoReply

\* C7 as stated: on an empty normalized table nothing raises, the aggregates
\* are empty and every insight call is sent a generic fallback prompt.
C7_AllPromptsFallback ==
    (Normalized /\ cleaned_df.rows = <<>>) =>
        /\ NothingRaisedOutsideCalls
        /\ \A i \in DOMAIN page : page[i].kind = "chart" => EmptyChart(page[i])
        /\ \A i \in DOMAIN calls : calls[i].prompt.template = "trend_fallback"

BlockTemplate == <<"sentiment", "trend", "platform", "media_type", "location">>

\* C7 as amended: on an empty normalized table no chart, aggregate or prompt
\* raises and the aggregates are empty; the engagement-trend call alone is
\* sent the generic fallback prompt, the other four calls are sent their
\* usual prompt with the empty aggregate embedded.
C7_OnlyTrendFallsBack ==
    (Normalized /\ cleaned_df.rows = <<>>) =>
        /\ NothingRaisedOutsideCalls
        /\ \A i \in DOMAIN page : page[i].kind = "chart" => EmptyChart(page[i])
        /\ \A i \in DOMAIN calls :
                /\ calls[i].prompt.exc = ""
                /\ calls[i].prompt.data = <<>>
                /\ calls[i].prompt.template =
                        IF calls[i].block = 2 THEN "trend_fallback"
                        ELSE BlockTemplate[calls[i].block]

\* a run that lost every row to date parsing and made all five calls
C7_Witness ==
    /\ pc = "done"
    /\ Normalized
    /\ cleaned_df.rows = <<>>
    /\ Len(raw_df.rows) > 0
    /\ CallBlocks = <<1, 2, 3, 4, 5>>

ParseableRows == {j \in DOMAIN raw_df.rows : raw_df.rows[j].date.k = "ts"}

\* C8: the cleaned table holds exactly the input rows whose raw date parses,
\* each once and with its parsed date; no other row is in it and none of
\* them is dropped, whatever its engagements or sentiment.
C8_ExactlyParseableRows ==
    Normalized =>
        /\ {cleaned_df.rows[i].src : i \in DOMAIN cleaned_df.rows} = ParseableRows
        /\ Len(cleaned_df.rows) = Cardinality(ParseableRows)
        /\ \A i \in DOMAIN cleaned_df.rows :
                cleaned_df.rows[i].date = raw_df.rows[cleaned_df.rows[i].src].date.v

\* of two rows, the one with the unparseable date is gone and one with text
\* engagements and a missing sentiment is kept
C8_Witness ==
    /\ pc = "chart1"
    /\ Len(raw_df.rows) = 2
    /\ Len(cleaned_df.rows) = 1
    /\ \E j \in DOMAIN raw_df.rows : raw_df.rows[j].date.k = "text"
    /\ \E j \in ParseableRows :
            /\ raw_df.rows[j].engagements.k = "text"
            /\ raw_df.rows[j].sentiment.k = "nan"

\* the two cleaned rows show the same values
SameValues(a, b) ==
    /\ a.date = b.date /\ a.platform = b.platform /\ a.sentiment = b.sentiment
    /\ a.location = b.location /\ a.engagements = b.engagements
    /\ a.media_type = b.media_type

LocationsIn(rows) == {rows[i].location : i \in DOMAIN rows}

RECURSIVE EngagementsAt(_, _)
EngagementsAt(rows, location) ==
    IF rows = <<>> THEN 0
    ELSE (IF Head(rows).location = location THEN Head(rows).engagements ELSE 0)
            + EngagementsAt(Tail(rows), location)

TopFive(agg, rows) ==
    /\ Len(agg) <= 5
    /\ Len(agg) = 5 \/ Len(agg) = Cardinality(LocationsIn(rows))
    /\ \A i \in DOMAIN agg :
            /\ agg[i][1] \in LocationsIn(rows)
            /\ agg[i][2] = EngagementsAt(rows, agg[i][1])
    /\ \A i, j \in DOMAIN agg : i < j => (agg[i][1] # agg[j][1] /\ agg[i][2] >= agg[j][2])
    /\ \A l \in LocationsIn(rows) \ {agg[i][1] : i \in DOMAIN agg} :
            \A i \in DOMAIN agg : EngagementsAt(rows, l) <= agg[i][2]

\* C10: the top-locations aggregate, charted and embedded in the prompt, has
\* at most 5 entries, in descending order of summed engagements, and no
\* location left out has a larger sum than one that is in it.
C10_TopLocations ==
    /\ \A i \in DOMAIN page :
            page[i].kind = "chart" => TopFive(page[i].data, cleaned_df.rows)
    /\ \A i \in DOMAIN calls : TopFive(calls[i].prompt.data, cleaned_df.rows)

\* more than five locations, five kept in both aggregates, a tie at the cut
C10_Witness ==
    /\ pc = "top_done"
    /\ Cardinality(LocationsIn(cleaned_df.rows)) > 5
    /\ Len(page[1].data) = 5
    /\ calls[1].prompt.data = page[1].data
    /\ page[1].data[4][2] = page[1].data[5][2]

====
